---- MODULE Spec2Model ----
(***************************************************************************)
(* Model of src/src/main.rs: one worker thread of test() running           *)
(*   parse_input -> create_slides -> sort_slides -> arrange_slides         *)
(*   -> rate_slideshow                                                     *)
(* on one input (the threads of test() share nothing).  Vectors are        *)
(* sequences; Rust indices are kept 0-based in the variables and shifted   *)
(* by one where a sequence is indexed.  The progress report of             *)
(* arrange_slides and write_slides, which only print, are left out.        *)
(***************************************************************************)
EXTENDS Integers, Sequences, FiniteSets, TLC

\* Largest number of pictures of an input with small tag sets.
MaxPictures == 4

\* Largest number of pictures of an input with wide tag sets.
MaxWidePictures == 3

\* Number of tags of a wide picture.
WideLen == 128

\* u8::max_value()
U8Max == 255

VARIABLES
    input,                \* what parse_input returned (kept for reference)
    profile,              \* "release" once an overflow has wrapped, "any" before
    pc,                   \* position of the worker thread
    panic,                \* "" or the function in which the thread panicked
    pictures,             \* create_slides: the argument vector
    vertical_pictures,    \* create_slides: the pairing pool
    slides,               \* create_slides: the slides emitted so far
    sorted_slides,        \* test: what sort_slides returned
    pool,                 \* arrange_slides: its working vector `slides`
    arranged_slides,      \* arrange_slides: the arrangement built so far
    current_slide_index,  \* arrange_slides
    score                 \* test: what rate_slideshow returned

vars == <<input, profile, pc, panic, pictures, vertical_pictures, slides,
          sorted_slides, pool, arranged_slides, current_slide_index, score>>

----------------------------------------------------------------------------
\* Vec and integer primitives

Min(a, b) == IF a <= b THEN a ELSE b

Elems(v) == {v[i] : i \in DOMAIN v}

\* u8 wrapping arithmetic (release profile)
Wrap8(x) == ((x % (U8Max + 1)) + (U8Max + 1)) % (U8Max + 1)

InU8(x) == 0 <= x /\ x <= U8Max

\* Vec::contains
Contains(tags, tag) == tag \in Elems(tags)

\* Vec::remove(index), index 0-based and in range
Remove(v, index) == SubSeq(v, 1, index) \o SubSeq(v, index + 2, Len(v))

\* The number of increments of the loop
\*   for tag in a.iter() { if b.contains(tag) { n += 1 } }
CommonTags(a, b) ==
    LET B == Elems(b)
    IN  Cardinality({i \in DOMAIN a : a[i] \in B})

\* Orders of the indices in S with number_of_tags descending.
RECURSIVE DescendingOrders(_, _)
DescendingOrders(v, S) ==
    IF S = {} THEN {<<>>}
    ELSE LET first == {i \in S : \A k \in S :
                         v[i].number_of_tags >= v[k].number_of_tags}
         IN  UNION {{<<i>> \o o : o \in DescendingOrders(v, S \ {i})} : i \in first}

\* The results sort_unstable_by(|x, y| y.number_of_tags.partial_cmp(&x.number_of_tags))
\* may produce: descending number_of_tags, equal elements in any order (an
\* unstable sort "may reorder equal elements").
SortDescending(v) ==
    {[i \in 1..Len(v) |-> v[o[i]]] : o \in DescendingOrders(v, DOMAIN v)}

----------------------------------------------------------------------------
\* Inputs

Range(lo, hi) == [i \in 1..(hi - lo + 1) |-> lo + i - 1]

\* Tag sequences of the small inputs: disjoint, nested and overlapping sets.
TagSeqs == {<<1>>, <<1, 2>>, <<2, 3>>}

\* Tag sequences of the wide inputs.
WideTagSeqs == {Range(1, WideLen), Range(WideLen + 1, 2 * WideLen), <<1>>}

Orientations == {"Horizontal", "Vertical"}

\* parse_input: picture_id counts the lines from 0; number_of_tags is the
\* count the line announces, which for a well-formed file is the tag count.
Picture(id, orientation, tags) ==
    [picture_id |-> id, orientation |-> orientation,
     number_of_tags |-> Len(tags), tags |-> tags]

Inputs(max, seqs) ==
    UNION {{[i \in 1..n |-> Picture(i - 1, f[i][1], f[i][2])] :
               f \in [1..n -> Orientations \X seqs]} : n \in 0..max}

----------------------------------------------------------------------------
\* create_slides

HorizontalSlide(picture) ==
    [picture_id |-> picture.picture_id, second_picture_id |-> <<>>,
     orientation |-> "Horizontal", number_of_tags |-> picture.number_of_tags,
     tags |-> picture.tags]

\* A match that sends every picture to the pairing pool.
IsVerticalAll(picture) == TRUE

IsVertical(picture) == picture.orientation = "Vertical"

\* The drain loop: horizontal pictures become slides, in input order.
RECURSIVE DrainHorizontal(_)
DrainHorizontal(ps) ==
    IF ps = <<>> THEN <<>>
    ELSE IF IsVertical(Head(ps)) THEN DrainHorizontal(Tail(ps))
    ELSE <<HorizontalSlide(Head(ps))>> \o DrainHorizontal(Tail(ps))

RECURSIVE DrainVertical(_)
DrainVertical(ps) ==
    IF ps = <<>> THEN <<>>
    ELSE IF IsVertical(Head(ps)) THEN <<Head(ps)>> \o DrainVertical(Tail(ps))
    ELSE DrainVertical(Tail(ps))

\* A pop that takes the front of the vector, not its back.
PopFront(v) == [current_picture |-> v[1], rest |-> SubSeq(v, 2, Len(v))]

\* vertical_pictures.pop().unwrap() on a non-empty vector
Pop(v) == [current_picture |-> v[Len(v)], rest |-> SubSeq(v, 1, Len(v) - 1)]

\* A comparison that never records a smaller waste.
PairUpdateNever(waste, smallest_waste) == FALSE

PairUpdate(waste, smallest_waste) == waste < smallest_waste

\* The scan for the partner, from `index` on.
\* Returns smallest_waste_index and whether `waste += 1` overflowed.
RECURSIVE ScanPictures(_, _, _, _, _, _)
ScanPictures(current_picture, vp, index, smallest_waste, smallest_waste_index, ovf) ==
    IF index >= Len(vp)
    THEN [smallest_waste_index |-> smallest_waste_index, overflow |-> ovf]
    ELSE LET n     == CommonTags(current_picture.tags, vp[index + 1].tags)
             waste == Wrap8(n)
             upd   == PairUpdate(waste, smallest_waste)
             sw    == IF upd THEN waste ELSE smallest_waste
             swi   == IF upd THEN index ELSE smallest_waste_index
         IN  IF waste = 0
             THEN [smallest_waste_index |-> swi, overflow |-> ovf \/ ~InU8(n)]
             ELSE ScanPictures(current_picture, vp, index + 1, sw, swi,
                               ovf \/ ~InU8(n))

\* A partner read by index and left in the pool.
TakeMatchingKeep(vp, index) ==
    [matching_picture |-> vp[index + 1], rest |-> vp]

\* vertical_pictures.remove(smallest_waste_index), index in range
TakeMatching(vp, index) ==
    [matching_picture |-> vp[index + 1], rest |-> Remove(vp, index)]

\* A merge that pushes every tag of the partner.
MergeTagsConcat(current_tags, matching_tags) == current_tags \o matching_tags

\* for tag in matching.tags.drain(..) { if !current.tags.contains(&tag) { push } }
\* The tag at position j is pushed when neither the current picture's own tags
\* nor the tags pushed before it (those at positions k < j) contain it.
MergeTags(current_tags, matching_tags) ==
    LET C      == Elems(current_tags)
        pushed == SelectSeq([j \in 1..Len(matching_tags) |-> j],
                            LAMBDA j : /\ matching_tags[j] \notin C
                                       /\ \A k \in 1..(j - 1) :
                                             matching_tags[k] # matching_tags[j])
    IN  current_tags \o [i \in 1..Len(pushed) |-> matching_tags[pushed[i]]]

VerticalSlide(current_picture, matching_picture) ==
    LET tags == MergeTags(current_picture.tags, matching_picture.tags)
    IN  [picture_id |-> current_picture.picture_id,
         second_picture_id |-> <<matching_picture.picture_id>>,
         orientation |-> "Vertical",
         number_of_tags |-> Wrap8(Len(tags)),
         tags |-> tags]

----------------------------------------------------------------------------
\* arrange_slides

\* A current slide read at the index while the front of the pool is removed.
TakeCurrentFront(v, index) ==
    [current_slide |-> v[index + 1], rest |-> Remove(v, 0)]

\* slides.remove(current_slide_index), index in range
TakeCurrent(v, index) ==
    [current_slide |-> v[index + 1], rest |-> Remove(v, index)]

\* Lines 67-76 for one candidate, in u8: every value as the release profile
\* computes it (wrapping), and whether any operation left 0..255, on which
\* the debug profile panics.
WasteOf(current_slide, candidate) ==
    LET n           == CommonTags(current_slide.tags, candidate.tags)
        common_tags == Wrap8(n)
        l0          == current_slide.number_of_tags - common_tags
        left_side   == Wrap8(l0)
        r0          == candidate.number_of_tags - common_tags
        right_side  == Wrap8(r0)
        sc          == Min(common_tags, Min(left_side, right_side))
        w1          == left_side - sc
        w2          == Wrap8(w1) + right_side
        w3          == Wrap8(w2) - sc
        w4          == Wrap8(w3) + common_tags
        w5          == Wrap8(w4) - sc
    IN  [waste    |-> Wrap8(w5),
         score    |-> sc,
         overflow |-> ~(InU8(n) /\ InU8(l0) /\ InU8(r0) /\ InU8(w1) /\ InU8(w2)
                        /\ InU8(w3) /\ InU8(w4) /\ InU8(w5))]

\* The scan for the next slide, from `index` on.
RECURSIVE ScanSlides(_, _, _, _, _, _)
ScanSlides(current_slide, pl, index, smallest_waste, smallest_waste_index, ovf) ==
    IF index >= Len(pl)
    THEN [smallest_waste_index |-> smallest_waste_index, overflow |-> ovf]
    ELSE LET e   == WasteOf(current_slide, pl[index + 1])
             upd == e.waste < smallest_waste
             sw  == IF upd THEN e.waste ELSE smallest_waste
             swi == IF upd THEN index ELSE smallest_waste_index
         IN  IF e.waste = 0
             THEN [smallest_waste_index |-> swi, overflow |-> ovf \/ e.overflow]
             ELSE ScanSlides(current_slide, pl, index + 1, sw, swi,
                             ovf \/ e.overflow)

----------------------------------------------------------------------------
\* rate_slideshow

\* Lines 118-130 for the window (slides[index], slides[index + 1]).
RateOf(a, b) ==
    LET n           == CommonTags(b.tags, a.tags)
        common_tags == Wrap8(n)
        d           == Min(b.number_of_tags, a.number_of_tags) - common_tags
    IN  [score    |-> Min(common_tags, Wrap8(d)),
         overflow |-> ~(InU8(n) /\ InU8(d))]

\* The loop over index in 0..slides.len() - 1, for a non-empty vector.  The
\* sum is a u32 and each term is at most 255: no vector of the model brings
\* it near 2^32.
RECURSIVE RateFrom(_, _, _, _)
RateFrom(v, index, sc, ovf) ==
    IF index >= Len(v) - 1 THEN [score |-> sc, overflow |-> ovf]
    ELSE LET e == RateOf(v[index + 1], v[index + 2])
         IN  RateFrom(v, index + 1, sc + e.score, ovf \/ e.overflow)

----------------------------------------------------------------------------
\* The worker thread

\* Integer overflow panics in the debug profile and wraps in the release
\* profile.  The profile is fixed when the program is built, and a run shows
\* which one it is only at its first overflow: there the thread either panics
\* (debug) or wraps, and from then on the run is a release run.
Panics(overflow) ==
    IF overflow /\ profile = "any" THEN {TRUE, FALSE} ELSE {FALSE}

Resolved(overflow) == IF overflow THEN "release" ELSE profile

Init ==
    /\ input \in Inputs(MaxPictures, TagSeqs) \cup Inputs(MaxWidePictures, WideTagSeqs)
    /\ profile = "any"
    /\ pc = "create_slides"
    /\ panic = ""
    /\ pictures = input
    /\ vertical_pictures = <<>>
    /\ slides = <<>>
    /\ sorted_slides = <<>>
    /\ pool = <<>>
    /\ arranged_slides = <<>>
    /\ current_slide_index = 0
    /\ score = 0

\* create_slides, lines 136-153: the drain loop and the sort of the pool.
DrainPictures ==
    /\ pc = "create_slides"
    /\ panic = ""
    /\ slides' = DrainHorizontal(pictures)
    /\ vertical_pictures' \in SortDescending(DrainVertical(pictures))
    /\ pictures' = <<>>
    /\ pc' = "pair"
    /\ UNCHANGED <<input, profile, panic, sorted_slides, pool,
                   arranged_slides, current_slide_index, score>>

\* create_slides, lines 154-186: one iteration of the pairing loop.
PairStep ==
    /\ pc = "pair"
    /\ panic = ""
    /\ vertical_pictures # <<>>
    /\ LET p == Pop(vertical_pictures)
           r == ScanPictures(p.current_picture, p.rest, 0, U8Max, 0, FALSE)
       IN  \E panics \in Panics(r.overflow) :
             IF panics \/ r.smallest_waste_index >= Len(p.rest)
             THEN \* `waste += 1` overflowed, or remove() was given an index
                  \* that is not in the vector
                  /\ panic' = "create_slides"
                  /\ vertical_pictures' = p.rest
                  /\ UNCHANGED <<slides, profile>>
             ELSE LET m == TakeMatching(p.rest, r.smallest_waste_index)
                  IN  /\ vertical_pictures' = m.rest
                      /\ slides' = Append(slides,
                                          VerticalSlide(p.current_picture,
                                                        m.matching_picture))
                      /\ profile' = Resolved(r.overflow)
                      /\ UNCHANGED panic
    /\ UNCHANGED <<input, pc, pictures, sorted_slides, pool,
                   arranged_slides, current_slide_index, score>>

\* create_slides, line 187: the loop is over and the slides are returned.
CreateSlidesReturn ==
    /\ pc = "pair"
    /\ panic = ""
    /\ vertical_pictures = <<>>
    /\ pc' = "sort_slides"
    /\ UNCHANGED <<input, profile, panic, pictures, vertical_pictures,
                   slides, sorted_slides, pool, arranged_slides,
                   current_slide_index, score>>

\* sort_slides, and the entry of arrange_slides (lines 53-58).
SortSlides ==
    /\ pc = "sort_slides"
    /\ panic = ""
    /\ sorted_slides' \in SortDescending(slides)
    /\ pool' = sorted_slides'
    /\ arranged_slides' = <<>>
    /\ current_slide_index' = 0
    /\ pc' = "arrange_slides"
    /\ UNCHANGED <<input, profile, panic, pictures, vertical_pictures,
                   slides, score>>

\* arrange_slides, lines 59-87: one iteration of the loop.
ArrangeStep ==
    /\ pc = "arrange_slides"
    /\ panic = ""
    /\ pool # <<>>
    /\ IF current_slide_index >= Len(pool)
       THEN /\ panic' = "arrange_slides"
            /\ UNCHANGED <<pool, arranged_slides, current_slide_index, profile>>
       ELSE LET t == TakeCurrent(pool, current_slide_index)
                r == ScanSlides(t.current_slide, t.rest, 0, U8Max, 0, FALSE)
            IN  \E panics \in Panics(r.overflow) :
                  IF panics
                  THEN /\ panic' = "arrange_slides"
                       /\ pool' = t.rest
                       /\ UNCHANGED <<arranged_slides, current_slide_index, profile>>
                  ELSE /\ pool' = t.rest
                       /\ arranged_slides' = Append(arranged_slides, t.current_slide)
                       /\ current_slide_index' = r.smallest_waste_index
                       /\ profile' = Resolved(r.overflow)
                       /\ UNCHANGED panic
    /\ UNCHANGED <<input, pc, pictures, vertical_pictures,
                   slides, sorted_slides, score>>

\* arrange_slides, line 88: the pool is empty and the arrangement is returned.
ArrangeReturn ==
    /\ pc = "arrange_slides"
    /\ panic = ""
    /\ pool = <<>>
    /\ pc' = "rate_slideshow"
    /\ UNCHANGED <<input, profile, panic, pictures, vertical_pictures,
                   slides, sorted_slides, pool, arranged_slides,
                   current_slide_index, score>>

\* rate_slideshow, the whole call.  On an empty vector slides.len() - 1
\* underflows: the debug profile panics there, the release profile wraps to
\* usize::MAX and panics on slides[1].
RateSlideshow ==
    /\ pc = "rate_slideshow"
    /\ panic = ""
    /\ IF Len(arranged_slides) = 0
       THEN /\ panic' = "rate_slideshow"
            /\ UNCHANGED <<pc, score, profile>>
       ELSE LET r == RateFrom(arranged_slides, 0, 0, FALSE)
            IN  \E panics \in Panics(r.overflow) :
                  IF panics
                  THEN /\ panic' = "rate_slideshow"
                       /\ UNCHANGED <<pc, score, profile>>
                  ELSE /\ score' = r.score
                       /\ pc' = "done"
                       /\ profile' = Resolved(r.overflow)
                       /\ UNCHANGED panic
    /\ UNCHANGED <<input, pictures, vertical_pictures, slides,
                   sorted_slides, pool, arranged_slides, current_slide_index>>

Next ==
    \/ DrainPictures
    \/ PairStep
    \/ CreateSlidesReturn
    \/ SortSlides
    \/ ArrangeStep
    \/ ArrangeReturn
    \/ RateSlideshow

Spec == Init /\ [][Next]_vars

----------------------------------------------------------------------------
\* Vocabulary of the properties

TagSet(x) == Elems(x.tags)

\* commonCount of two tag sets
CommonCount(a, b) == Cardinality(TagSet(a) \cap TagSet(b))

\* interestScore(A, B) = min(common, |A| - common, |B| - common)
InterestScore(a, b) ==
    LET common == CommonCount(a, b)
    IN  Min(common, Min(Cardinality(TagSet(a)) - common,
                        Cardinality(TagSet(b)) - common))

\* waste = (leftOnly - score) + (rightOnly - score) + (common - score)
Waste(a, b) ==
    LET common    == CommonCount(a, b)
        leftOnly  == Cardinality(TagSet(a)) - common
        rightOnly == Cardinality(TagSet(b)) - common
        sc        == InterestScore(a, b)
    IN  (leftOnly - sc) + (rightOnly - sc) + (common - sc)

RECURSIVE SumInterest(_)
SumInterest(v) ==
    IF Len(v) < 2 THEN 0
    ELSE InterestScore(v[1], v[2]) + SumInterest(Tail(v))

PictureOf(id) == input[id + 1]

Composite(s) == s.second_picture_id # <<>>

Ids(s) == {s.picture_id} \cup Elems(s.second_picture_id)

Primary(s) == PictureOf(s.picture_id)

Secondary(s) == PictureOf(s.second_picture_id[1])

NumVertical == Cardinality({i \in DOMAIN input : input[i].orientation = "Vertical"})

NumHorizontal == Cardinality({i \in DOMAIN input : input[i].orientation = "Horizontal"})

NumComposite == Cardinality({i \in DOMAIN slides : Composite(slides[i])})

Count(v, x) == Cardinality({i \in DOMAIN v : v[i] = x})

StrictlyAscending(t) == \A i \in 1..(Len(t) - 1) : t[i] < t[i + 1]

NoDuplicates(t) == Cardinality(Elems(t)) = Len(t)

\* create_slides has returned or has panicked
CreateSlidesEnded == pc \notin {"create_slides", "pair"} \/ panic = "create_slides"

\* arrange_slides has returned
ArrangeReturned == pc \in {"rate_slideshow", "done"}

\* The step from this state to the next is an iteration of the pairing loop
\* that emitted a slide.
PairStepTaken == pc = "pair" /\ Len(slides') = Len(slides) + 1

----------------------------------------------------------------------------
\* C1: when arrange_slides has returned, the arrangement is a permutation of
\* its input pool: same length, every input slide in it exactly once, nothing
\* duplicated or invented.
C1_ArrangementIsPermutation ==
    ArrangeReturned =>
        /\ Len(arranged_slides) = Len(sorted_slides)
        /\ \A i \in DOMAIN sorted_slides : Count(arranged_slides, sorted_slides[i]) = 1
        /\ \A i \in DOMAIN arranged_slides :
              /\ Count(arranged_slides, arranged_slides[i]) = 1
              /\ Count(sorted_slides, arranged_slides[i]) = 1

\* C1 witness: arrange_slides returned three or more slides in another order
\* than it was given.
C1_Witness ==
    /\ pc = "rate_slideshow"
    /\ Len(arranged_slides) >= 3
    /\ arranged_slides # sorted_slides

\* C2: no picture id is the primary or the secondary of more than one
\* composite slide, and the two ids of a composite slide differ.
C2_PictureUsedOnce ==
    \A i \in DOMAIN slides :
        Composite(slides[i]) =>
            /\ slides[i].second_picture_id[1] # slides[i].picture_id
            /\ \A j \in DOMAIN slides :
                  (j # i /\ Composite(slides[j])) =>
                      Ids(slides[i]) \cap Ids(slides[j]) = {}

\* C2 witness: create_slides returned two composite slides.
C2_Witness == pc = "sort_slides" /\ NumComposite >= 2

\* C3: with an odd number V of vertical pictures create_slides returns
\* normally, with (V - 1) / 2 composite slides (the picture left over is
\* dropped).
C3_OddPictureDropped ==
    (NumVertical % 2 = 1 /\ CreateSlidesEnded) =>
        /\ panic # "create_slides"
        /\ NumComposite = (NumVertical - 1) \div 2

\* C4: with an even number V of vertical pictures create_slides returns V / 2
\* composite slides and exactly one Horizontal slide per horizontal picture.
C4_EvenPairing ==
    (NumVertical % 2 = 0 /\ CreateSlidesEnded) =>
        /\ panic # "create_slides"
        /\ NumComposite = NumVertical \div 2
        /\ Len(slides) = NumComposite + NumHorizontal
        /\ \A i \in DOMAIN input :
              input[i].orientation = "Horizontal" =>
                  Cardinality({k \in DOMAIN slides :
                                  /\ slides[k].picture_id = input[i].picture_id
                                  /\ slides[k].orientation = "Horizontal"
                                  /\ ~Composite(slides[k])}) = 1

\* C4 witness: create_slides returned for an input with vertical pairs and
\* horizontal pictures.
C4_Witness ==
    /\ pc = "sort_slides"
    /\ NumVertical % 2 = 0
    /\ NumVertical >= 2
    /\ NumHorizontal >= 1

\* C5 as stated: every emitted slide has a strictly ascending tag sequence; a
\* composite slide's is the sorted union of its two pictures' tag sets and
\* number_of_tags is the size of that union.
C5_SortedUnion ==
    \A i \in DOMAIN slides :
        /\ StrictlyAscending(slides[i].tags)
        /\ Composite(slides[i]) =>
              /\ TagSet(slides[i]) = TagSet(Primary(slides[i])) \cup TagSet(Secondary(slides[i]))
              /\ slides[i].number_of_tags = Cardinality(TagSet(slides[i]))

\* C5 amended: every emitted slide has a duplicate-free tag sequence; a
\* composite slide's starts with the primary picture's tags, holds exactly the
\* union of the two pictures' tag sets (in no sorted order), and
\* number_of_tags is the size of that union truncated to 8 bits.
C5_DuplicateFreeUnion ==
    \A i \in DOMAIN slides :
        /\ NoDuplicates(slides[i].tags)
        /\ ~Composite(slides[i]) =>
              /\ slides[i].tags = Primary(slides[i]).tags
              /\ slides[i].number_of_tags = Len(slides[i].tags)
        /\ Composite(slides[i]) =>
              LET u == TagSet(Primary(slides[i])) \cup TagSet(Secondary(slides[i]))
              IN  /\ TagSet(slides[i]) = u
                  /\ SubSeq(slides[i].tags, 1, Len(Primary(slides[i]).tags))
                        = Primary(slides[i]).tags
                  /\ slides[i].number_of_tags = Cardinality(u) % (U8Max + 1)

\* C5 witness: a composite slide of two overlapping pictures whose tag
\* sequence is not ascending.
C5_Witness ==
    \E i \in DOMAIN slides :
        /\ Composite(slides[i])
        /\ ~StrictlyAscending(slides[i].tags)
        /\ TagSet(Primary(slides[i])) \cap TagSet(Secondary(slides[i])) # {}

\* C6: for every arrangement, of any length, rate_slideshow returns the sum
\* of interestScore over the consecutive pairs (0 for fewer than two slides)
\* and changes nothing else.
C6_RateIsSumOfInterest ==
    [][(pc = "rate_slideshow" /\ panic = "") =>
          /\ panic' = ""
          /\ pc' = "done"
          /\ score' = SumInterest(arranged_slides)
          /\ UNCHANGED <<arranged_slides, slides, sorted_slides, pool>>]_vars

\* C7: after every iteration of arrange_slides that leaves slides in the
\* pool, the next current slide has the least waste against the slide just
\* placed, and is the first pool member with that waste.
C7_NextHasLeastWaste ==
    (pc = "arrange_slides" /\ panic = "" /\ arranged_slides # <<>> /\ pool # <<>>) =>
        LET current == arranged_slides[Len(arranged_slides)]
            chosen  == current_slide_index + 1
        IN  /\ chosen \in DOMAIN pool
            /\ \A k \in DOMAIN pool :
                  /\ Waste(current, pool[chosen]) <= Waste(current, pool[k])
                  /\ k < chosen => Waste(current, pool[chosen]) < Waste(current, pool[k])

\* C8: in every pairing step the partner has the least commonCount with the
\* current picture among the pictures left in the pool, and when some picture
\* of the pool shares no tag with the current one the partner is the first
\* such picture the scan meets.
C8_PartnerHasLeastOverlap ==
    [][PairStepTaken =>
          LET s == slides'[Len(slides')]
              others == SelectSeq(vertical_pictures,
                                  LAMBDA x : x.picture_id # s.picture_id)
          IN  /\ Len(others) = Len(vertical_pictures) - 1
              /\ \E i \in DOMAIN others :
                    /\ others[i].picture_id = s.second_picture_id[1]
                    /\ vertical_pictures' = Remove(others, i - 1)
                    /\ \A k \in DOMAIN others :
                          CommonCount(Primary(s), others[i])
                             <= CommonCount(Primary(s), others[k])
                    /\ \A k \in 1..(i - 1) :
                          CommonCount(Primary(s), others[i]) = 0
                             => CommonCount(Primary(s), others[k]) > 0]_vars

\* C8 witness: the first composite slide pairs two pictures that share tags
\* while a third vertical picture shares more tags with its primary.
C8_Witness ==
    /\ NumComposite >= 1
    /\ LET s == slides[CHOOSE i \in DOMAIN slides :
                          /\ Composite(slides[i])
                          /\ \A k \in 1..(i - 1) : ~Composite(slides[k])]
       IN  /\ CommonCount(Primary(s), Secondary(s)) >= 1
           /\ \E r \in DOMAIN input :
                 /\ input[r].orientation = "Vertical"
                 /\ input[r].picture_id \notin Ids(s)
                 /\ CommonCount(Primary(s), input[r])
                       > CommonCount(Primary(s), Secondary(s))

\* C9 as stated: in every pairing step the current picture has the largest
\* tag count of the pool, so primaries come in descending order of tag count.
C9_LargestFirst ==
    [][PairStepTaken =>
          LET s == slides'[Len(slides')]
          IN  /\ \A k \in DOMAIN vertical_pictures :
                    Len(Primary(s).tags) >= Len(vertical_pictures[k].tags)
              /\ \A k \in DOMAIN slides :
                    Composite(slides[k]) =>
                        Len(Primary(slides[k]).tags) >= Len(Primary(s).tags)]_vars

\* C9 amended: in every pairing step the current picture is a picture of the
\* pool with the smallest tag count, so primaries come in non-decreasing
\* order of tag count.
C9_SmallestFirst ==
    [][PairStepTaken =>
          LET s == slides'[Len(slides')]
          IN  /\ \E k \in DOMAIN vertical_pictures :
                    vertical_pictures[k] = Primary(s)
              /\ \A k \in DOMAIN vertical_pictures :
                    Len(Primary(s).tags) <= Len(vertical_pictures[k].tags)
              /\ \A k \in DOMAIN slides :
                    Composite(slides[k]) =>
                        Len(Primary(slides[k]).tags) <= Len(Primary(s).tags)]_vars

\* C9 witness: two composite slides, the later one with the primary of more
\* tags.
C9_Witness ==
    \E i, j \in DOMAIN slides :
        /\ i < j
        /\ Composite(slides[i])
        /\ Composite(slides[j])
        /\ Len(Primary(slides[i]).tags) < Len(Primary(slides[j]).tags)

\* The u8 operations of lines 70-76 on (a, b), computed in the integers, all
\* stay within 0..255.
ArithmeticInRange(a, b) ==
    LET common_tags == CommonTags(a.tags, b.tags)
        left_side   == Len(a.tags) - common_tags
        right_side  == Len(b.tags) - common_tags
        sc          == Min(common_tags, Min(left_side, right_side))
    IN  /\ InU8(common_tags)
        /\ InU8(left_side)
        /\ InU8(right_side)
        /\ InU8(left_side - sc)
        /\ InU8(left_side - sc + right_side)
        /\ InU8(left_side - sc + right_side - sc)
        /\ InU8(left_side - sc + right_side - sc + common_tags)
        /\ InU8(left_side - sc + right_side - sc + common_tags - sc)

\* C10: the 8-bit arithmetic never leaves 0..255: number_of_tags of a
\* composite slide is its tag count, and no operation on a candidate that the
\* scan of arrange_slides evaluates underflows or overflows.
C10_U8InRange ==
    /\ \A i \in DOMAIN slides :
          Composite(slides[i]) => slides[i].number_of_tags = Len(slides[i].tags)
    /\ (pc = "arrange_slides" /\ panic = "" /\ current_slide_index < Len(pool)) =>
          LET t == TakeCurrent(pool, current_slide_index)
          IN  \A k \in DOMAIN t.rest :
                 (\A j \in 1..(k - 1) : WasteOf(t.current_slide, t.rest[j]).waste # 0)
                    => ArithmeticInRange(t.current_slide, t.rest[k])

====
